---- MODULE Spec2Model ----
(***************************************************************************)
(* A model of libcypher-parser's cypher-lint front end (main and process)  *)
(* and of three AST node kinds: float, line comment and create unique      *)
(* constraint.                                                             *)
(*                                                                         *)
(*   Spec            the cypher-lint command: option loop, process(), exit *)
(*   FloatSpec       float and line comment nodes over a caller's buffer   *)
(*   ConstraintSpec  construction of create unique constraint nodes        *)
(*   DetailSpec      ordinals and the constraint node's detail string      *)
(***************************************************************************)
EXTENDS Integers, Sequences, FiniteSets, TLC

\* ------------------------------------------------------------------ bounds
MaxArgs == 3          \* options on the command line
MaxErrors == 2        \* errors held by a parse result
MaxDirectives == 1    \* directives held by a parse result
MaxErrno == 1         \* errno ranges over 0..MaxErrno
MaxWidth == 1         \* values of atoi(optarg) for --output-width
MaxLen == 2           \* length of the caller's text buffer
MaxNodes == 4         \* nodes on the heap
MaxHeapBytes == 3     \* bytes of literal text the heap can hold
MaxBase == 9          \* nodes numbered before the ones modelled
MaxSize == 31         \* size of the buffer handed to detailstr

\* ------------------------------------------------- cypher-lint: constants
EXIT_SUCCESS == 0
EXIT_FAILURE == 1
COLORIZE_OPT == 1004
OUTPUT_WIDTH_OPT == 1005
VERSION_OPT == 1006
CH_a == 97
CH_h == 104
CH_v == 118
CH_unknown == 63      \* '?', getopt_long's answer for an option it rejects

Tokens ==
    {"-a", "--ast", "--colorize", "-h", "--help", "--output-width",
     "--version", "-v", "-x"}

\* getopt_long over shortopts "ahv" and longopts: the code returned for a token.
\* "-x" stands for any option in neither table.
getopt_long(tok) ==
    CASE tok \in {"-a", "--ast"} -> CH_a
      [] tok = "--colorize" -> COLORIZE_OPT
      [] tok \in {"-h", "--help"} -> CH_h
      [] tok = "--output-width" -> OUTPUT_WIDTH_OPT
      [] tok = "--version" -> VERSION_OPT
      [] tok = "-v" -> CH_v
      [] OTHER -> CH_unknown

ArgvSet == UNION {[1..n -> Tokens] : n \in 0..MaxArgs}

NullResult == [isnull |-> TRUE, nerrors |-> 0, ndirectives |-> 0]

Event(fd, what, idx, color) ==
    [fd |-> fd, what |-> what, idx |-> idx, color |-> color]

VARIABLES
    argv,                \* the options of the command line, in order
    stdoutTty,           \* isatty(fileno(stdout))
    stderrTty,           \* isatty(fileno(stderr))
    pc,                  \* position in main / process
    optind,              \* index of the next option getopt_long returns
    config,              \* struct lint_config
    main_result,         \* main's result
    cp_config,           \* process's cp_config
    parse_result,        \* process's result
    error_colorization,  \* process's error_colorization
    i,                   \* process's loop index over the errors
    err,                 \* process's err
    errno,
    errsv,
    out,                 \* what was written to stdout and stderr, in order
    memlog,              \* creations, uses and frees of cp_config and result

    nodes,               \* the heap: the AST nodes allocated, by address
    buf,                 \* the caller's text buffer (s)
    bufLive,             \* FALSE once the caller has released the buffer
    call                 \* the last library call: its arguments and outcome

astVars == <<nodes, buf, bufLive, call>>

lintVars ==
    <<argv, stdoutTty, stderrTty, pc, optind, config, main_result, cp_config,
      parse_result, error_colorization, i, err, errno, errsv, out, memlog>>

vars == <<lintVars, astVars>>

\* main, lines 78-90: memset, the two isatty tests, result = EXIT_FAILURE.
InitConfig(outTty, errTty) ==
    [width |-> 0, dump_ast |-> FALSE,
     colorize_output |-> outTty, colorize_errors |-> errTty]

LintInit ==
    /\ argv \in ArgvSet
    /\ stdoutTty \in BOOLEAN
    /\ stderrTty \in BOOLEAN
    /\ pc = "getopt"
    /\ optind = 1
    /\ config = InitConfig(stdoutTty, stderrTty)
    /\ main_result = EXIT_FAILURE
    /\ cp_config = [allocated |-> FALSE, error_colorization |-> "unset"]
    /\ parse_result = NullResult
    /\ error_colorization = "none"
    /\ i = 0
    /\ err = 0
    /\ errno = 0
    /\ errsv = 0
    /\ out = <<>>
    /\ memlog = <<>>

processVars ==
    <<cp_config, parse_result, error_colorization, i, err, errno, errsv, memlog>>
inputVars == <<argv, stdoutTty, stderrTty>>

HasOpt == pc = "getopt" /\ optind <= Len(argv)
CurOpt == getopt_long(argv[optind])

\* case 'a'
OptAst ==
    /\ HasOpt /\ CurOpt = CH_a
    /\ config' = [config EXCEPT !.dump_ast = TRUE]
    /\ optind' = optind + 1
    /\ UNCHANGED <<astVars, inputVars, pc, main_result, out, processVars>>

ColorizeConfig_OutputOnly(c) == [c EXCEPT !.colorize_output = TRUE]

\* case COLORIZE_OPT
ColorizeConfig(c) ==
    [c EXCEPT !.colorize_output = TRUE, !.colorize_errors = TRUE]

OptColorize ==
    /\ HasOpt /\ CurOpt = COLORIZE_OPT
    /\ config' = ColorizeConfig(config)
    /\ optind' = optind + 1
    /\ UNCHANGED <<astVars, inputVars, pc, main_result, out, processVars>>

HelpNext_FallThrough == "getopt"

\* case 'h': goto cleanup
HelpNext == "exit"

OptHelp ==
    /\ HasOpt /\ CurOpt = CH_h
    /\ out' = Append(out, Event("stdout", "usage", 0, "-"))
    /\ main_result' = EXIT_SUCCESS
    /\ pc' = HelpNext
    /\ optind' = optind + 1
    /\ UNCHANGED <<astVars, inputVars, config, processVars>>

\* case OUTPUT_WIDTH_OPT: config.width = atoi(optarg)
OptOutputWidth ==
    /\ HasOpt /\ CurOpt = OUTPUT_WIDTH_OPT
    /\ \E w \in 0..MaxWidth : config' = [config EXCEPT !.width = w]
    /\ optind' = optind + 1
    /\ UNCHANGED <<astVars, inputVars, pc, main_result, out, processVars>>

\* case VERSION_OPT: two lines on stdout, goto cleanup
OptVersion ==
    /\ HasOpt /\ CurOpt = VERSION_OPT
    /\ out' = out \o <<Event("stdout", "version", 0, "-"),
                       Event("stdout", "version", 1, "-")>>
    /\ main_result' = EXIT_SUCCESS
    /\ pc' = "exit"
    /\ optind' = optind + 1
    /\ UNCHANGED <<astVars, inputVars, config, processVars>>

UsageErrorResult_Two(r) == 2

\* default: result keeps the value it has
UsageErrorResult(r) == r

OptDefault ==
    /\ HasOpt
    /\ CurOpt \notin {CH_a, COLORIZE_OPT, CH_h, OUTPUT_WIDTH_OPT, VERSION_OPT}
    /\ out' = Append(out, Event("stderr", "usage", 0, "-"))
    /\ main_result' = UsageErrorResult(main_result)
    /\ pc' = "exit"
    /\ optind' = optind + 1
    /\ UNCHANGED <<astVars, inputVars, config, processVars>>

\* getopt_long returns -1: main calls process(stdin, &config)
OptEnd ==
    /\ pc = "getopt" /\ optind > Len(argv)
    /\ pc' = "process"
    /\ UNCHANGED <<astVars, inputVars, optind, config, main_result, out, processVars>>

\* process, lines 145-152
ErrorColorization(c) == IF c.colorize_errors THEN "ansi" ELSE "none"

\* process, lines 139-154: cypher_parser_new_config and the error colorization
ProcessNewConfig ==
    /\ pc = "process"
    /\ \E ok \in BOOLEAN :
        IF ok
        THEN /\ error_colorization' = ErrorColorization(config)
             /\ cp_config' =
                  [allocated |-> TRUE,
                   error_colorization |->
                       IF config.colorize_errors
                       THEN error_colorization' ELSE "unset"]
             /\ memlog' = memlog \o
                  (IF config.colorize_errors
                   THEN <<"config_new", "config_use">> ELSE <<"config_new">>)
             /\ err' = -1
             /\ pc' = "parse"
             /\ errno' = errno
        ELSE /\ err' = -1
             /\ pc' = "returned"
             /\ \E e \in 1..MaxErrno : errno' = e
             /\ UNCHANGED <<cp_config, error_colorization, memlog>>
    /\ UNCHANGED <<astVars, inputVars, optind, config, main_result, out,
                   parse_result, i, errsv>>

\* process, lines 156-162: cypher_fparse reads the stream
ProcessParse ==
    /\ pc = "parse"
    /\ \E ok \in BOOLEAN :
        IF ok
        THEN /\ \E ne \in 0..MaxErrors, nd \in 0..MaxDirectives :
                   parse_result' =
                       [isnull |-> FALSE, nerrors |-> ne, ndirectives |-> nd]
             /\ memlog' = memlog \o <<"config_use", "result_new">>
             /\ pc' = "errors"
             /\ UNCHANGED <<out, errno>>
        ELSE /\ parse_result' = NullResult
             /\ memlog' = Append(memlog, "config_use")
             /\ \E e \in 1..MaxErrno : errno' = e
             /\ out' = Append(out, Event("stderr", "perror", 0, "-"))
             /\ pc' = "cleanup"
    /\ i' = 0
    /\ UNCHANGED <<astVars, inputVars, optind, config, main_result, cp_config,
                   error_colorization, err, errsv>>

\* process, lines 165-179: one iteration of the loop over the errors
ProcessError ==
    /\ pc = "errors"
    /\ i < parse_result.nerrors
    /\ out' = Append(out, Event("stderr", "diag", i, error_colorization))
    /\ memlog' = Append(memlog, "result_use")
    /\ i' = i + 1
    /\ UNCHANGED <<astVars, inputVars, pc, optind, config, main_result, cp_config,
                   parse_result, error_colorization, err, errno, errsv>>

\* process, lines 165-166: cypher_parse_result_error returns NULL
ProcessErrorsDone ==
    /\ pc = "errors"
    /\ i >= parse_result.nerrors
    /\ memlog' = Append(memlog, "result_use")
    /\ pc' = "print"
    /\ UNCHANGED <<astVars, inputVars, optind, config, main_result, cp_config,
                   parse_result, error_colorization, i, err, errno, errsv, out>>

\* process, lines 181-182
OutputColorization(c) == IF c.colorize_output THEN "ansi" ELSE "null"

\* process, line 190
ProcessErr(nd) == IF nd > 0 THEN 0 ELSE 1

ShouldDump_OnlyWithoutErrors(c, r) == c.dump_ast /\ r.nerrors = 0

\* process, line 183: the AST is dumped when --ast was given
ShouldDump(c, r) == c.dump_ast

\* process, lines 183-190: the AST dump and err
ProcessPrint ==
    /\ pc = "print"
    /\ \E ok \in BOOLEAN :
        IF ShouldDump(config, parse_result) /\ ~ok
        THEN /\ out' = Append(out, Event("stderr", "perror", 1, "-"))
             /\ memlog' = Append(memlog, "result_use")
             /\ \E e \in 1..MaxErrno : errno' = e
             /\ err' = err
        ELSE /\ ok
             /\ out' = IF ShouldDump(config, parse_result)
                       THEN Append(out, Event("stdout", "ast", config.width,
                                              OutputColorization(config)))
                       ELSE out
             /\ memlog' = memlog \o
                  (IF ShouldDump(config, parse_result)
                   THEN <<"result_use", "result_use">> ELSE <<"result_use">>)
             /\ err' = ProcessErr(parse_result.ndirectives)
             /\ errno' = errno
    /\ pc' = "cleanup"
    /\ UNCHANGED <<astVars, inputVars, optind, config, main_result, cp_config,
                   parse_result, error_colorization, i, errsv>>

\* process, line 194
ProcessCleanup ==
    /\ pc = "cleanup"
    /\ errsv' = errno
    /\ pc' = "config_free"
    /\ UNCHANGED <<astVars, inputVars, optind, config, main_result, cp_config,
                   parse_result, error_colorization, i, err, errno, out, memlog>>

\* process, line 195: the library call may leave any value in errno
ProcessConfigFree ==
    /\ pc = "config_free"
    /\ memlog' = Append(memlog, "config_free")
    /\ cp_config' = [cp_config EXCEPT !.allocated = FALSE]
    /\ \E e \in 0..MaxErrno : errno' = e
    /\ pc' = "result_free"
    /\ UNCHANGED <<astVars, inputVars, optind, config, main_result, parse_result,
                   error_colorization, i, err, errsv, out>>

\* process, line 196
ProcessResultFree ==
    /\ pc = "result_free"
    /\ memlog' = Append(memlog, IF parse_result.isnull
                                THEN "result_free_null" ELSE "result_free")
    /\ \E e \in 0..MaxErrno : errno' = e
    /\ pc' = "restore"
    /\ UNCHANGED <<astVars, inputVars, optind, config, main_result, cp_config,
                   parse_result, error_colorization, i, err, errsv, out>>

RestoredErrno_Skip(saved, cur) == cur

\* process, line 197
RestoredErrno(saved, cur) == saved

ProcessReturn ==
    /\ pc = "restore"
    /\ errno' = RestoredErrno(errsv, errno)
    /\ pc' = "returned"
    /\ UNCHANGED <<astVars, inputVars, optind, config, main_result, cp_config,
                   parse_result, error_colorization, i, err, errsv, out, memlog>>

\* main, lines 125-133
MainAfterProcess ==
    /\ pc = "returned"
    /\ main_result' = IF err # 0 THEN main_result ELSE EXIT_SUCCESS
    /\ pc' = "exit"
    /\ UNCHANGED <<astVars, inputVars, optind, config, out, processVars>>

LintNext ==
    \/ OptAst
    \/ OptColorize
    \/ OptHelp
    \/ OptOutputWidth
    \/ OptVersion
    \/ OptDefault
    \/ OptEnd
    \/ ProcessNewConfig
    \/ ProcessParse
    \/ ProcessError
    \/ ProcessErrorsDone
    \/ ProcessPrint
    \/ ProcessCleanup
    \/ ProcessConfigFree
    \/ ProcessResultFree
    \/ ProcessReturn
    \/ MainAfterProcess

\* ------------------------------------------------- cypher-lint: properties

Has(what, fd) == \E k \in 1..Len(out) : out[k].what = what /\ out[k].fd = fd
UsageError == Has("usage", "stderr")
Unrecognised ==
    UsageError /\ optind > 1 /\ getopt_long(argv[optind - 1]) = CH_unknown
PrintFailed == \E k \in 1..Len(out) : out[k].what = "perror" /\ out[k].idx = 1
Parsed == ~parse_result.isnull
Count(s, x) == Cardinality({k \in 1..Len(s) : s[k] = x})

\* C1 as stated: at exit, status 0 when at least one directive was parsed, 1
\* when the parse yielded zero directives, 2 on a usage error.
C1_Original ==
    pc = "exit" =>
        /\ (Parsed /\ parse_result.ndirectives > 0) => main_result = 0
        /\ (Parsed /\ parse_result.ndirectives = 0) => main_result = 1
        /\ Unrecognised => main_result = 2

\* C1 amended: the exit status is 0 or 1; it is 0 when the parse produced at
\* least one directive and the AST dump (if asked for) did not fail, 1 when the
\* parse yielded zero directives, and also 1 on a usage error.
C1_ExitCodes ==
    pc = "exit" =>
        /\ main_result \in {0, 1}
        /\ (Parsed /\ parse_result.ndirectives > 0 /\ ~PrintFailed)
               => main_result = 0
        /\ (Parsed /\ parse_result.ndirectives = 0) => main_result = 1
        /\ UsageError => main_result = 1

C1_Witness == pc = "exit" /\ Unrecognised /\ main_result = 1

Continues(k) ==
    getopt_long(argv[k]) \in {CH_a, COLORIZE_OPT, OUTPUT_WIDTH_OPT}
Stops == {k \in 1..Len(argv) : ~Continues(k)}
FirstStop == IF Stops = {} THEN 0
             ELSE CHOOSE k \in Stops : \A j \in Stops : k <= j
HelpOrVersionFirst ==
    FirstStop # 0 /\ getopt_long(argv[FirstStop]) \in {CH_h, VERSION_OPT}
HelpOutput == <<Event("stdout", "usage", 0, "-")>>
VersionOutput ==
    <<Event("stdout", "version", 0, "-"), Event("stdout", "version", 1, "-")>>

\* C2: when the first option that is not --ast, --colorize or --output-width
\* is -h/--help or --version, the run ends there: only the usage (or the two
\* version lines) is written, to stdout, the status is 0, and process() is
\* never entered (nothing is parsed), whatever options follow.
C2_HelpVersionEndRun ==
    HelpOrVersionFirst =>
        /\ pc \in {"getopt", "exit"}
        /\ memlog = <<>> /\ parse_result = NullResult
        /\ pc = "getopt" => (optind <= FirstStop /\ out = <<>>)
        /\ pc = "exit" =>
              /\ optind = FirstStop + 1
              /\ main_result = 0
              /\ out = IF getopt_long(argv[FirstStop]) = CH_h
                       THEN HelpOutput ELSE VersionOutput

C2_Witness ==
    /\ pc = "exit" /\ HelpOrVersionFirst
    /\ 1 < FirstStop /\ FirstStop < Len(argv)
    /\ argv[Len(argv)] = "-x"

Diags == SelectSeq(out, LAMBDA e : e.what = "diag")
DiagsBefore(p) == Cardinality({k \in 1..(p - 1) : out[k].what = "diag"})
AfterErrors == pc \in {"print", "cleanup", "config_free", "result_free",
                       "restore", "returned", "exit"}
AfterPrint == AfterErrors /\ pc # "print"

\* C7: the k diagnostics of a parse result go to stderr in index order
\* 0..k-1, all of them before any AST output; with --ast the AST is printed to
\* stdout also when k > 0; and once the AST step has passed without an I/O
\* failure the exit status depends on the directive count only.
C7_ErrorsThenAst ==
    /\ \A j \in 1..Len(Diags) : Diags[j].idx = j - 1 /\ Diags[j].fd = "stderr"
    /\ (Parsed /\ AfterErrors) => Len(Diags) = parse_result.nerrors
    /\ \A p \in 1..Len(out) :
          out[p].what = "ast" =>
              /\ out[p].fd = "stdout"
              /\ DiagsBefore(p) = parse_result.nerrors
    /\ (Parsed /\ AfterPrint /\ config.dump_ast /\ ~PrintFailed)
          => Has("ast", "stdout")
    /\ (pc = "exit" /\ Parsed /\ ~PrintFailed)
          => main_result = (IF parse_result.ndirectives > 0 THEN 0 ELSE 1)

C7_Witness ==
    /\ pc = "exit" /\ Parsed /\ parse_result.nerrors = MaxErrors
    /\ Has("ast", "stdout") /\ main_result = 0
    /\ Len(Diags) = MaxErrors

ColorizeGiven(n) == \E k \in 1..n : argv[k] = "--colorize"
InProcess == pc \in {"parse", "errors", "print", "cleanup", "config_free"}

\* C8: once --colorize has been processed both colorize flags are set and
\* stay set, so diagnostics and AST use the ANSI scheme whatever the
\* terminals are; without it the AST uses ANSI exactly when stdout is a
\* terminal (else a null scheme) and diagnostics use ANSI exactly when stderr
\* is one (else the no-op scheme, the parser configuration's error
\* colorization never being set).
C8_Colorization ==
    /\ ColorizeGiven(optind - 1)
          => (config.colorize_output /\ config.colorize_errors)
    /\ ~ColorizeGiven(optind - 1)
          => /\ config.colorize_output = stdoutTty
             /\ config.colorize_errors = stderrTty
    /\ \A k \in 1..Len(out) :
          /\ out[k].what = "diag" =>
                out[k].color = IF ColorizeGiven(Len(argv)) \/ stderrTty
                               THEN "ansi" ELSE "none"
          /\ out[k].what = "ast" =>
                out[k].color = IF ColorizeGiven(Len(argv)) \/ stdoutTty
                               THEN "ansi" ELSE "null"
    /\ InProcess =>
          cp_config.error_colorization =
              IF ColorizeGiven(Len(argv)) \/ stderrTty THEN "ansi" ELSE "unset"

C8_Witness ==
    /\ ~stdoutTty /\ ~stderrTty
    /\ \E k \in 1..Len(out) : out[k].what = "diag" /\ out[k].color = "ansi"
    /\ \E k \in 1..Len(out) : out[k].what = "ast" /\ out[k].color = "ansi"
    /\ argv[1] = "--colorize" /\ Len(argv) > 1

NoneAfter(s, use, free) ==
    \A j, k \in 1..Len(s) : (s[j] = free /\ s[k] = use) => k < j
ConfigCreated == Count(memlog, "config_new") = 1

\* C10: on every path of process() that created the configuration, at return
\* the configuration has been freed exactly once and the parse result, when
\* there is one, exactly once, each after its last use; and errno at return
\* is the value it had on entry to the cleanup label.
C10_Cleanup ==
    /\ [](/\ NoneAfter(memlog, "config_use", "config_free")
          /\ NoneAfter(memlog, "result_use", "result_free")
          /\ (pc = "returned" /\ ConfigCreated) =>
                /\ Count(memlog, "config_free") = 1
                /\ Count(memlog, "result_free") = (IF Parsed THEN 1 ELSE 0)
                /\ errno = errsv)
    /\ [][pc = "cleanup" => errsv' = errno]_vars

C10_Witness ==
    /\ pc = "returned" /\ ConfigCreated /\ ~Parsed /\ errno = MaxErrno
    /\ Count(memlog, "config_free") = 1

\* -------------------------------------------------------------- AST nodes
NULL == 0
NUL == 0
Bytes == {NUL, 46, 49}

\* The parents each kind's vtable declares.
float_parents == {"EXPRESSION"}

line_comment_parents == {}

create_unique_constraint_parents == {"SCHEMA_COMMAND"}

Parents(kind) ==
    CASE kind = "FLOAT" -> float_parents
      [] kind = "LINE_COMMENT" -> line_comment_parents
      [] kind = "CREATE_UNIQUE_NODE_PROP_CONSTRAINT" ->
             create_unique_constraint_parents
      [] kind = "SCHEMA_COMMAND" -> {"STATEMENT_BODY"}
      [] OTHER -> {}

RECURSIVE Ancestors(_)
Ancestors(kind) ==
    Parents(kind) \cup UNION {Ancestors(k) : k \in Parents(kind)}

\* The test REQUIRE_TYPE makes: the node's kind is the type or descends from it.
cypher_astnode_instanceof(node, type) ==
    node.type = type \/ type \in Ancestors(node.type)

\* A block from calloc after cypher_astnode_init: every other field is zero.
Astnode(type, children, p) ==
    [type |-> type, children |-> children, ordinal |-> 0, p |-> p,
     identifier |-> NULL, label |-> NULL, expression |-> NULL]

IdentifierNode == Astnode("IDENTIFIER", <<>>, <<>>)
LabelNode == Astnode("LABEL", <<>>, <<>>)

Outcome(ret, heap, allocs, frees) ==
    [ret |-> ret, nodes |-> heap, allocs |-> allocs, frees |-> frees]

CopyText_OffByOne(s, n) == [k \in 1..(n + 1) |-> IF k < n THEN s[k] ELSE NUL]

\* memcpy(node->p, s, n); node->p[n] = '\0', into n+1 zeroed bytes
CopyText(s, n) == [k \in 1..(n + 1) |-> IF k <= n THEN s[k] ELSE NUL]

\* cypher_ast_float(s, n, range); allocOK and initOK are what calloc and
\* cypher_astnode_init answer.
cypher_ast_float(heap, s, n, allocOK, initOK) ==
    IF ~allocOK THEN Outcome(NULL, heap, 0, 0)
    ELSE IF ~initOK THEN Outcome(NULL, heap, 1, 1)
    ELSE Outcome(Len(heap) + 1,
                 Append(heap, Astnode("FLOAT", <<>>, CopyText(s, n))), 1, 0)

cypher_ast_line_comment_Leak(heap, s, n, allocOK, initOK) ==
    IF ~allocOK THEN Outcome(NULL, heap, 0, 0)
    ELSE IF ~initOK THEN Outcome(NULL, heap, 1, 0)
    ELSE Outcome(Len(heap) + 1,
                 Append(heap, Astnode("LINE_COMMENT", <<>>, CopyText(s, n))),
                 1, 0)

\* cypher_ast_line_comment(s, n, range)
cypher_ast_line_comment(heap, s, n, allocOK, initOK) ==
    IF ~allocOK THEN Outcome(NULL, heap, 0, 0)
    ELSE IF ~initOK THEN Outcome(NULL, heap, 1, 1)
    ELSE Outcome(Len(heap) + 1,
                 Append(heap, Astnode("LINE_COMMENT", <<>>, CopyText(s, n))),
                 1, 0)

\* cypher_ast_float_value(astnode): the pointer (the node whose storage it
\* points into, or NULL) and the bytes read through it
cypher_ast_float_value(heap, a) ==
    IF ~cypher_astnode_instanceof(heap[a], "FLOAT")
    THEN [ret |-> NULL, str |-> <<>>]
    ELSE [ret |-> a, str |-> heap[a].p]

cypher_ast_create_unique_constraint_NoLabelCheck(heap, identifier, label, expression, children, allocOK, initOK) ==
    IF ~cypher_astnode_instanceof(heap[identifier], "IDENTIFIER")
    THEN Outcome(NULL, heap, 0, 0)
    ELSE IF ~cypher_astnode_instanceof(heap[expression], "EXPRESSION")
    THEN Outcome(NULL, heap, 0, 0)
    ELSE IF ~allocOK THEN Outcome(NULL, heap, 0, 0)
    ELSE IF ~initOK THEN Outcome(NULL, heap, 1, 1)
    ELSE Outcome(Len(heap) + 1,
                 Append(heap,
                     [Astnode("CREATE_UNIQUE_NODE_PROP_CONSTRAINT",
                              children, <<>>)
                      EXCEPT !.identifier = identifier, !.label = label,
                             !.expression = expression]),
                 1, 0)

\* cypher_ast_create_unique_constraint(identifier, label, expression,
\*                                     children, nchildren, range)
cypher_ast_create_unique_constraint(heap, identifier, label, expression, children, allocOK, initOK) ==
    IF ~cypher_astnode_instanceof(heap[identifier], "IDENTIFIER")
    THEN Outcome(NULL, heap, 0, 0)
    ELSE IF ~cypher_astnode_instanceof(heap[label], "LABEL")
    THEN Outcome(NULL, heap, 0, 0)
    ELSE IF ~cypher_astnode_instanceof(heap[expression], "EXPRESSION")
    THEN Outcome(NULL, heap, 0, 0)
    ELSE IF ~allocOK THEN Outcome(NULL, heap, 0, 0)
    ELSE IF ~initOK THEN Outcome(NULL, heap, 1, 1)
    ELSE Outcome(Len(heap) + 1,
                 Append(heap,
                     [Astnode("CREATE_UNIQUE_NODE_PROP_CONSTRAINT",
                              children, <<>>)
                      EXCEPT !.identifier = identifier, !.label = label,
                             !.expression = expression]),
                 1, 0)

DigitChars == <<"0", "1", "2", "3", "4", "5", "6", "7", "8", "9">>

\* %u
RECURSIVE FormatUnsigned(_)
FormatUnsigned(n) ==
    IF n < 10 THEN <<DigitChars[n + 1]>>
    ELSE Append(FormatUnsigned(n \div 10), DigitChars[(n % 10) + 1])

Min(a, b) == IF a < b THEN a ELSE b

\* snprintf(str, size, ...) of the text `full`: the length of the whole text
\* is returned; at most size-1 characters and a NUL are stored, none if size=0
snprintf(size, full) ==
    [ret |-> Len(full), written |-> size > 0,
     str |-> IF size = 0 THEN <<>>
             ELSE SubSeq(full, 1, Min(Len(full), size - 1))]

detailstr_Swapped(heap, self, size) ==
    IF ~cypher_astnode_instanceof(heap[self],
                                  "CREATE_UNIQUE_NODE_PROP_CONSTRAINT")
    THEN [ret |-> -1, written |-> FALSE, str |-> <<>>]
    ELSE snprintf(size,
            <<"O", "N", "=", "(", "@">>
            \o FormatUnsigned(heap[heap[self].label].ordinal)
            \o <<":", "@">>
            \o FormatUnsigned(heap[heap[self].identifier].ordinal)
            \o <<")", ",", " ", "I", "S", " ",
                 "U", "N", "I", "Q", "U", "E", "=", "(", "@">>
            \o FormatUnsigned(heap[heap[self].expression].ordinal)
            \o <<")">>)

\* the constraint node's detailstr(self, str, size)
detailstr(heap, self, size) ==
    IF ~cypher_astnode_instanceof(heap[self],
                                  "CREATE_UNIQUE_NODE_PROP_CONSTRAINT")
    THEN [ret |-> -1, written |-> FALSE, str |-> <<>>]
    ELSE snprintf(size,
            <<"O", "N", "=", "(", "@">>
            \o FormatUnsigned(heap[heap[self].identifier].ordinal)
            \o <<":", "@">>
            \o FormatUnsigned(heap[heap[self].label].ordinal)
            \o <<")", ",", " ", "I", "S", " ",
                 "U", "N", "I", "Q", "U", "E", "=", "(", "@">>
            \o FormatUnsigned(heap[heap[self].expression].ordinal)
            \o <<")">>)

RECURSIVE PayloadBytes(_)
PayloadBytes(heap) ==
    IF heap = <<>> THEN 0 ELSE Len(Head(heap).p) + PayloadBytes(Tail(heap))

\* calloc and cypher_astnode_init: both succeed, calloc fails, init fails
AllocCases == {<<TRUE, TRUE>>, <<FALSE, TRUE>>, <<TRUE, FALSE>>}

\* the children arrays a caller may pass: nodes of the heap, in address order
RECURSIVE AscendingSeqs(_)
AscendingSeqs(n) ==
    IF n = 0 THEN {<<>>}
    ELSE AscendingSeqs(n - 1) \cup {Append(q, n) : q \in AscendingSeqs(n - 1)}
ChildLists(heap) == AscendingSeqs(Len(heap))

NoCall ==
    [op |-> "none", args |-> <<>>, n |-> 0, allocOK |-> TRUE, initOK |-> TRUE,
     ret |-> 0, allocs |-> 0, frees |-> 0, s |-> <<>>, str |-> <<>>,
     written |-> FALSE]

Room(n) ==
    /\ Len(nodes) < MaxNodes
    /\ PayloadBytes(nodes) + n + 1 <= MaxHeapBytes

AstFloat ==
    /\ bufLive
    /\ \E n \in 0..Len(buf), f \in AllocCases :
        /\ Room(n)
        /\ LET r == cypher_ast_float(nodes, buf, n, f[1], f[2]) IN
            /\ nodes' = r.nodes
            /\ call' = [NoCall EXCEPT !.op = "float", !.n = n, !.s = buf,
                            !.allocOK = f[1], !.initOK = f[2], !.ret = r.ret,
                            !.allocs = r.allocs, !.frees = r.frees]
    /\ UNCHANGED <<buf, bufLive, lintVars>>

AstLineComment ==
    /\ bufLive
    /\ \E n \in 0..Len(buf), f \in AllocCases :
        /\ Room(n)
        /\ LET r == cypher_ast_line_comment(nodes, buf, n, f[1], f[2]) IN
            /\ nodes' = r.nodes
            /\ call' = [NoCall EXCEPT !.op = "line_comment", !.n = n,
                            !.s = buf,
                            !.allocOK = f[1], !.initOK = f[2], !.ret = r.ret,
                            !.allocs = r.allocs, !.frees = r.frees]
    /\ UNCHANGED <<buf, bufLive, lintVars>>

FloatValue ==
    /\ \E a \in 1..Len(nodes) :
        LET r == cypher_ast_float_value(nodes, a) IN
            call' = [NoCall EXCEPT !.op = "float_value", !.args = <<a>>,
                         !.ret = r.ret, !.str = r.str]
    /\ UNCHANGED <<nodes, buf, bufLive, lintVars>>

\* the caller overwrites a byte of its buffer (or, once the buffer is
\* released, whoever owns the memory next does)
WriteBuf ==
    /\ \E k \in 1..Len(buf), b \in Bytes :
        /\ buf[k] # b
        /\ buf' = [buf EXCEPT ![k] = b]
    /\ call' = [NoCall EXCEPT !.op = "write"]
    /\ UNCHANGED <<nodes, bufLive, lintVars>>

\* the caller releases its buffer
ReleaseBuf ==
    /\ bufLive
    /\ bufLive' = FALSE
    /\ call' = [NoCall EXCEPT !.op = "release"]
    /\ UNCHANGED <<nodes, buf, lintVars>>

CreateUniqueConstraint ==
    /\ Len(nodes) < MaxNodes
    /\ \E children \in ChildLists(nodes), f \in AllocCases,
          identifier, label, expression \in 1..Len(nodes) :
        LET r == cypher_ast_create_unique_constraint(nodes, identifier, label,
                     expression, children, f[1], f[2]) IN
            /\ nodes' = r.nodes
            /\ call' = [NoCall EXCEPT !.op = "create_unique_constraint",
                            !.args = <<identifier, label, expression>>,
                            !.allocOK = f[1], !.initOK = f[2], !.ret = r.ret,
                            !.allocs = r.allocs, !.frees = r.frees]
    /\ UNCHANGED <<buf, bufLive, lintVars>>

\* Result finalization numbers the nodes: here `base` nodes come before the
\* modelled ones, which are numbered in address order or in its reverse.
AssignOrdinals ==
    /\ \E base \in 0..MaxBase, rev \in BOOLEAN :
        nodes' = [a \in 1..Len(nodes) |->
                    [nodes[a] EXCEPT !.ordinal =
                        base + (IF rev THEN Len(nodes) - a ELSE a - 1)]]
    /\ call' = [NoCall EXCEPT !.op = "ordinals"]
    /\ UNCHANGED <<buf, bufLive, lintVars>>

Detailstr ==
    /\ \E a \in 1..Len(nodes), size \in 0..MaxSize :
        LET r == detailstr(nodes, a, size) IN
            call' = [NoCall EXCEPT !.op = "detailstr", !.args = <<a>>,
                         !.n = size, !.ret = r.ret, !.str = r.str,
                         !.written = r.written]
    /\ UNCHANGED <<nodes, buf, bufLive, lintVars>>

\* the command has not been started
LintIdle ==
    /\ argv = <<>> /\ stdoutTty = FALSE /\ stderrTty = FALSE
    /\ pc = "idle" /\ optind = 1
    /\ config = InitConfig(FALSE, FALSE)
    /\ main_result = EXIT_FAILURE
    /\ cp_config = [allocated |-> FALSE, error_colorization |-> "unset"]
    /\ parse_result = NullResult
    /\ error_colorization = "none"
    /\ i = 0 /\ err = 0 /\ errno = 0 /\ errsv = 0
    /\ out = <<>> /\ memlog = <<>>

\* no library call has been made
AstIdle == nodes = <<>> /\ buf = <<>> /\ bufLive = FALSE /\ call = NoCall

FloatInit ==
    /\ LintIdle
    /\ buf \in [1..MaxLen -> Bytes]
    /\ bufLive = TRUE
    /\ nodes = <<>>
    /\ call = NoCall

FloatNext ==
    \/ AstFloat
    \/ AstLineComment
    \/ FloatValue
    \/ WriteBuf
    \/ ReleaseBuf

FloatSpec == FloatInit /\ [][FloatNext]_vars

\* an identifier and a label have been built; the text at hand is empty
ConstraintInit ==
    /\ LintIdle
    /\ buf = <<>>
    /\ bufLive = TRUE
    /\ nodes = <<IdentifierNode, LabelNode>>
    /\ call = NoCall

ConstraintNext ==
    \/ AstFloat
    \/ AstLineComment
    \/ CreateUniqueConstraint

ConstraintSpec == ConstraintInit /\ [][ConstraintNext]_vars

\* CREATE CONSTRAINT ON (n:L) ASSERT <float> IS UNIQUE has been built
ConstraintHeap ==
    cypher_ast_create_unique_constraint(
        cypher_ast_float(<<IdentifierNode, LabelNode>>, <<49>>, 1,
                         TRUE, TRUE).nodes,
        1, 2, 3, <<1, 2, 3>>, TRUE, TRUE).nodes

DetailInit ==
    /\ LintIdle
    /\ buf = <<49>>
    /\ bufLive = TRUE
    /\ nodes = ConstraintHeap
    /\ call = NoCall

DetailNext ==
    \/ AssignOrdinals
    \/ Detailstr

DetailSpec == DetailInit /\ [][DetailNext]_vars

\* ---------------------------------------------------- AST nodes: properties

Constraint(a) == nodes[a].type = "CREATE_UNIQUE_NODE_PROP_CONSTRAINT"
IsChild(a, c) == \E k \in 1..Len(nodes[a].children) : nodes[a].children[k] = c
IsCtor(c) == c.op \in {"float", "line_comment", "create_unique_constraint"}
KindsAccepted(c) ==
    /\ nodes[c.args[1]].type = "IDENTIFIER"
    /\ nodes[c.args[2]].type = "LABEL"
    /\ "EXPRESSION" \in Ancestors(nodes[c.args[3]].type)

\* C3 as stated: every create unique constraint node the constructor returned
\* has its identifier, label and expression among its children.
C3_SlotsAreChildren ==
    \A a \in 1..Len(nodes) :
        Constraint(a) =>
            /\ IsChild(a, nodes[a].identifier)
            /\ IsChild(a, nodes[a].label)
            /\ IsChild(a, nodes[a].expression)

\* C4: when neither calloc nor cypher_astnode_init fails, the constructor
\* returns a node exactly when identifier is an IDENTIFIER, label a LABEL and
\* expression of a kind with EXPRESSION among its ancestors; a float is
\* accepted as the expression, a line comment is not; a rejected call
\* allocates nothing and leaves the heap as it was.
C4_AcceptsByKind ==
    /\ [](  (call.op = "create_unique_constraint"
               /\ call.allocOK /\ call.initOK) =>
            /\ (call.ret # NULL) <=> KindsAccepted(call)
            /\ (/\ nodes[call.args[1]].type = "IDENTIFIER"
                /\ nodes[call.args[2]].type = "LABEL"
                /\ nodes[call.args[3]].type = "FLOAT") => call.ret # NULL
            /\ nodes[call.args[3]].type = "LINE_COMMENT" => call.ret = NULL
            /\ call.ret = NULL => (call.allocs = 0 /\ call.frees = 0))
    /\ [][(call'.op = "create_unique_constraint" /\ call'.ret = NULL)
              => nodes' = nodes]_vars

C4_Witness ==
    /\ call.op = "create_unique_constraint"
    /\ call.ret = Len(nodes)
    /\ nodes[call.args[3]].type = "FLOAT"
    /\ \E a \in 1..Len(nodes) : IsChild(call.ret, a)

Numeral(n) ==
    IF n < 10 THEN <<DigitChars[n + 1]>>
    ELSE <<DigitChars[(n \div 10) + 1], DigitChars[(n % 10) + 1]>>
DetailText(u, v, w) ==
    <<"O", "N", "=", "(", "@">> \o Numeral(u) \o <<":", "@">> \o Numeral(v)
    \o <<")", ",", " ">> \o <<"I", "S", " ">>
    \o <<"U", "N", "I", "Q", "U", "E">> \o <<"=", "(", "@">> \o Numeral(w)
    \o <<")">>

\* C5: detailstr on a create unique constraint node whose identifier, label
\* and expression carry the ordinals u, v, w produces ON=(@u:@v), IS
\* UNIQUE=(@w): the length of that text is returned and the text, cut to the
\* buffer's size less one, is stored; on a node of another kind it returns -1
\* and stores nothing.
C5_DetailString ==
    call.op = "detailstr" =>
        LET self == call.args[1] IN
        IF Constraint(self)
        THEN LET text == DetailText(nodes[nodes[self].identifier].ordinal,
                                    nodes[nodes[self].label].ordinal,
                                    nodes[nodes[self].expression].ordinal) IN
             /\ call.ret = Len(text)
             /\ call.n > Len(text) => call.str = text
             /\ (call.n > 0 /\ call.n <= Len(text))
                   => call.str = SubSeq(text, 1, call.n - 1)
             /\ call.written = (call.n > 0)
        ELSE call.ret = -1 /\ ~call.written

C5_Witness ==
    /\ call.op = "detailstr" /\ Constraint(call.args[1])
    /\ call.n > call.ret /\ Len(call.str) = call.ret
    /\ nodes[1].ordinal > nodes[2].ordinal /\ nodes[3].ordinal >= 10

\* C6: the node cypher_ast_float returns holds, in its own storage, the first
\* n bytes of s followed by a NUL; cypher_ast_float_value returns that
\* storage, or NULL for a node that is not a FLOAT; and no node's storage
\* changes afterwards, whatever is written to the caller's buffer and whether
\* or not the buffer has been released.
C6_FloatOwnsText ==
    /\ [](/\ (call.op = "float" /\ call.ret # NULL) =>
                /\ nodes[call.ret].type = "FLOAT"
                /\ Len(nodes[call.ret].p) = call.n + 1
                /\ \A k \in 1..call.n : nodes[call.ret].p[k] = call.s[k]
                /\ nodes[call.ret].p[call.n + 1] = NUL
          /\ call.op = "float_value" =>
                IF nodes[call.args[1]].type = "FLOAT"
                THEN /\ call.ret = call.args[1]
                     /\ call.str = nodes[call.args[1]].p
                ELSE call.ret = NULL)
    /\ [][\A a \in 1..Len(nodes) : nodes'[a] = nodes[a]]_vars

C6_Witness ==
    /\ call.op = "float_value" /\ call.ret # NULL
    /\ call.str = <<49, 46, NUL>>
    /\ ~bufLive /\ \A k \in 1..Len(buf) : buf[k] = NUL

\* C9: a constructor whose calloc or cypher_astnode_init fails returns NULL,
\* has freed the block it allocated (if it allocated one) exactly once, and
\* leaves the heap as it was; a constructor that returns a node returns the
\* newest node of the heap, of its own kind, its block not freed.
C9_AllOrNothing ==
    /\ [](IsCtor(call) =>
            /\ (~call.allocOK \/ ~call.initOK) => call.ret = NULL
            /\ call.ret = NULL =>
                  /\ call.frees = call.allocs
                  /\ call.allocs <= 1
            /\ (/\ call.allocOK /\ ~call.initOK
                /\ call.op = "create_unique_constraint" => KindsAccepted(call))
                  => (call.allocs = 1 /\ call.frees = 1)
            /\ call.ret # NULL =>
                  /\ call.ret = Len(nodes)
                  /\ call.allocs = 1 /\ call.frees = 0
                  /\ nodes[call.ret].type =
                        (CASE call.op = "float" -> "FLOAT"
                           [] call.op = "line_comment" -> "LINE_COMMENT"
                           [] OTHER -> "CREATE_UNIQUE_NODE_PROP_CONSTRAINT"))
    /\ [][(IsCtor(call') /\ call'.ret = NULL) => nodes' = nodes]_vars

C9_Witness ==
    /\ call.op = "create_unique_constraint"
    /\ call.ret = NULL /\ call.allocs = 1 /\ call.frees = 1
    /\ Len(nodes) = 3

Init == LintInit /\ AstIdle
Next == LintNext
Spec == Init /\ [][Next]_vars
====
